---- MODULE Spec2Model ----
(***************************************************************************)
(* A model of app.py, the Streamlit weather forecast and health advisory   *)
(* page: the site registry kept in the session state and in sites.json,    *)
(* the two st.cache_data caches, the page script that every interaction    *)
(* reruns from the top, and the aggregation done by process_data.          *)
(***************************************************************************)
EXTENDS Integers, Sequences, FiniteSets, TLC

VARIABLES
    sites_file,      \* the content of sites.json
    session,         \* whether st.session_state holds 'sites'
    sites,           \* st.session_state.sites, a dict in insertion order
    edit_mode,       \* st.session_state.edit_mode
    selected_site,   \* the value of the "site_selector" selectbox
    forecast_cache,  \* the st.cache_data cache of fetch_forecast_data
    advice_cache,    \* the st.cache_data cache of get_health_recommendations
    run,             \* what the last page run did and how it ended
    steps,           \* the interactions so far
    weather_data,    \* process_data's first argument
    aqi_data,        \* process_data's second argument
    hourly_df,       \* process_data's first result
    summary_df,      \* process_data's second result
    pc               \* where the call of process_data stands

appVars == <<sites_file, session, sites, edit_mode, selected_site,
             forecast_cache, advice_cache, run, steps>>
pipeVars == <<weather_data, aqi_data, hourly_df, summary_df, pc>>
vars == <<sites_file, session, sites, edit_mode, selected_site,
          forecast_cache, advice_cache, run, steps,
          weather_data, aqi_data, hourly_df, summary_df, pc>>

(***************************************************************************)
(* Bounds of the model.                                                    *)
(***************************************************************************)
MaxDay == 2
MaxHour == 1
MaxSteps == 4

(***************************************************************************)
(* Values.  A cell of a DataFrame is a set: {} is NaN (a JSON null, or the *)
(* aggregate of no value), {v} is the number v.  A mean is the fraction    *)
(* <<numerator, denominator>> in lowest terms.                             *)
(***************************************************************************)
NaN == {}

Num(v) == {v}

\* The number of a cell that is not NaN.
NumberOf(cell) == CHOOSE v \in cell : TRUE

Values(cells) == UNION cells

SetMin(S) == CHOOSE m \in S : \A x \in S : m <= x

SetMax(S) == CHOOSE m \in S : \A x \in S : x <= m

RECURSIVE Gcd(_, _)
Gcd(a, b) == IF b = 0 THEN a ELSE Gcd(b, a % b)

RECURSIVE SumOver(_, _)
SumOver(f, S) ==
    IF S = {} THEN 0
    ELSE LET t == CHOOSE x \in S : TRUE
         IN  f[t] + SumOver(f, S \ {t})

\* A timestamp is <<day, hour>>, in UTC; the forecast starts on 2024-06-01.
Times == {<<d, h>> : d \in 0..MaxDay, h \in 0..MaxHour}

TimeBefore(a, b) == a[1] < b[1] \/ (a[1] = b[1] /\ a[2] < b[2])

DayOf(t) == t[1]

\* strftime('%Y-%m-%d') of the day's midnight.
DateStr(d) == "2024-06-0" \o ToString(d + 1)

(***************************************************************************)
(* process_data.  The raw data are the APIs' JSON: 'hourly' holds a list   *)
(* of times and one list per field, of equal length.                       *)
(***************************************************************************)
\* pd.DataFrame(weather_data['hourly']), to_datetime, set_index('time'), rename.
WeatherDf(data) ==
    LET h == data.hourly
        At(t) == CHOOSE i \in 1..Len(h.time) : h.time[i] = t
    IN  [t \in {h.time[i] : i \in 1..Len(h.time)} |->
            [Temp     |-> h.temperature_2m[At(t)],
             Humidity |-> h.relativehumidity_2m[At(t)],
             Rain     |-> h.rain[At(t)],
             Wind     |-> h.windspeed_10m[At(t)]]]

\* pd.DataFrame(aqi_data['hourly']), to_datetime, set_index('time'), rename.
AqiDf(data) ==
    LET h == data.hourly
        At(t) == CHOOSE i \in 1..Len(h.time) : h.time[i] = t
    IN  [t \in {h.time[i] : i \in 1..Len(h.time)} |-> [AQI |-> h.us_aqi[At(t)]]]

\* weather_df.join(aqi_df, how='inner'): the rows whose time is in both indexes.
InnerJoin(wdf, adf) ==
    [t \in (DOMAIN wdf) \cap (DOMAIN adf) |->
        [Temp     |-> wdf[t].Temp,
         Humidity |-> wdf[t].Humidity,
         Rain     |-> wdf[t].Rain,
         Wind     |-> wdf[t].Wind,
         AQI      |-> adf[t].AQI]]

\* The bins of resample('D'): every day from the first row's to the last row's.
ResampleBins(df) ==
    IF DOMAIN df = {} THEN {}
    ELSE LET days == {DayOf(t) : t \in DOMAIN df}
         IN  SetMin(days)..SetMax(days)

\* The aggregations of pandas, which skip NaN: min and max of no value are
\* NaN, the mean of no value is NaN, the sum of no value is 0.
AggMin(cells) == IF Values(cells) = {} THEN NaN ELSE Num(SetMin(Values(cells)))

AggMax(cells) == IF Values(cells) = {} THEN NaN ELSE Num(SetMax(Values(cells)))

AggSum(df, rows, col) ==
    LET have == {t \in rows : df[t][col] # NaN}
        val == [t \in have |-> NumberOf(df[t][col])]
    IN  Num(SumOver(val, have))

AggMean(df, rows, col) ==
    LET have == {t \in rows : df[t][col] # NaN}
        val == [t \in have |-> NumberOf(df[t][col])]
        s == SumOver(val, have)
        n == Cardinality(have)
        g == Gcd(IF s < 0 THEN -s ELSE s, n)
    IN  IF have = {} THEN NaN ELSE Num(<<s \div g, n \div g>>)

\* One row of summary_df: the bin of day d.
SummaryRow(df, d) ==
    LET rows == {t \in DOMAIN df : DayOf(t) = d}
        col(c) == {df[t][c] : t \in rows}
    IN  [Date         |-> DateStr(d),
         Temp_min     |-> AggMin(col("Temp")),
         Temp_max     |-> AggMax(col("Temp")),
         Humidity_min |-> AggMin(col("Humidity")),
         Humidity_max |-> AggMax(col("Humidity")),
         AQI_min      |-> AggMin(col("AQI")),
         AQI_max      |-> AggMax(col("AQI")),
         Wind_mean    |-> AggMean(df, rows, "Wind"),
         Rain_sum     |-> AggSum(df, rows, "Rain")]

\* hourly_df.resample('D').agg(...), its index formatted as YYYY-MM-DD: the
\* rows in the order of their days.
RECURSIVE SummaryRows(_, _)
SummaryRows(df, days) ==
    IF days = {} THEN <<>>
    ELSE <<SummaryRow(df, SetMin(days))>> \o SummaryRows(df, days \ {SetMin(days)})

Resample(df) == SummaryRows(df, ResampleBins(df))

\* The None in the place of an API's data, and the (None, None) in the place
\* of the two frames.
NoData == [none |-> TRUE, hourly |-> <<>>]

NoFrames == [none |-> TRUE, hourly |-> <<>>, summary |-> <<>>]

\* process_data(weather_data, aqi_data): none is the (None, None) of the
\* early return.
process_data(wd, ad) ==
    IF wd.none \/ ad.none
    THEN NoFrames
    ELSE LET hourly == InnerJoin(WeatherDf(wd), AqiDf(ad))
         IN  [none |-> FALSE, hourly |-> hourly, summary |-> Resample(hourly)]

(***************************************************************************)
(* The inputs process_data is checked on: each API's series holds any      *)
(* subset of the horizon's hours, with the values of one of a few          *)
(* profiles; a null is a reading the API does not have.                    *)
(***************************************************************************)
WeatherProfiles == {"steady", "rising", "missing"}

AqiProfiles == {"steady", "rising", "missing"}

WeatherSample(p, t) ==
    CASE p = "steady"  -> [temperature_2m |-> Num(20), relativehumidity_2m |-> Num(50),
                           rain |-> Num(0), windspeed_10m |-> Num(10)]
      [] p = "rising"  -> [temperature_2m |-> Num(19 + 6 * t[2] - t[1]),
                           relativehumidity_2m |-> Num(48 + 12 * t[2]),
                           rain |-> Num(t[2]), windspeed_10m |-> Num(5 + 2 * t[2] + t[1])]
      [] p = "missing" -> [temperature_2m |-> IF t[1] = 1 THEN NaN ELSE Num(22 - t[2]),
                           relativehumidity_2m |-> Num(55),
                           rain |-> IF t[2] = 0 THEN NaN ELSE Num(2),
                           windspeed_10m |-> IF t[1] = 1 THEN NaN ELSE Num(7)]

AqiSample(p, t) ==
    CASE p = "steady"  -> Num(30)
      [] p = "rising"  -> Num(28 + 12 * t[2] + t[1])
      [] p = "missing" -> IF t[1] = 1 THEN NaN ELSE Num(35 + t[2])

\* The times of a set in their order, as the APIs list them.
RECURSIVE TimeList(_)
TimeList(S) ==
    IF S = {} THEN <<>>
    ELSE LET first == CHOOSE a \in S : \A b \in S \ {a} : TimeBefore(a, b)
         IN  <<first>> \o TimeList(S \ {first})

\* The weather API's JSON for the hours `present`.
WeatherJson(present, p) ==
    LET time == TimeList(present)
    IN  [none |-> FALSE,
         hourly |-> [time |-> time,
                     temperature_2m |-> [i \in 1..Len(time) |-> WeatherSample(p, time[i]).temperature_2m],
                     relativehumidity_2m |-> [i \in 1..Len(time) |-> WeatherSample(p, time[i]).relativehumidity_2m],
                     rain |-> [i \in 1..Len(time) |-> WeatherSample(p, time[i]).rain],
                     windspeed_10m |-> [i \in 1..Len(time) |-> WeatherSample(p, time[i]).windspeed_10m]]]

\* The air-quality API's JSON for the hours `present`.
AqiJson(present, p) ==
    LET time == TimeList(present)
    IN  [none |-> FALSE,
         hourly |-> [time |-> time,
                     us_aqi |-> [i \in 1..Len(time) |-> AqiSample(p, time[i])]]]

\* summary_df.to_json(orient='split'): the columns, the index and the data as
\* JSON text, a NaN written as null.
JsonNumber(cell) == IF cell = NaN THEN "null" ELSE ToString(NumberOf(cell))

to_json(summary) ==
    [columns |-> <<"Temp_min", "Temp_max", "Humidity_min", "Humidity_max",
                   "AQI_min", "AQI_max", "Wind_mean", "Rain_sum">>,
     index   |-> [i \in 1..Len(summary) |-> summary[i].Date],
     data    |-> [i \in 1..Len(summary) |->
                     <<JsonNumber(summary[i].Temp_min), JsonNumber(summary[i].Temp_max),
                       JsonNumber(summary[i].Humidity_min), JsonNumber(summary[i].Humidity_max),
                       JsonNumber(summary[i].AQI_min), JsonNumber(summary[i].AQI_max),
                       JsonNumber(summary[i].Wind_mean), JsonNumber(summary[i].Rain_sum)>>]]

(***************************************************************************)
(* The site registry.  A dict is the sequence of its items in insertion    *)
(* order; sites.json holds a JSON object, or is absent, or is unreadable.  *)
(***************************************************************************)
\* The selectbox's value when it has no option.
NoSite == "<None>"

SiteNames == {"A", "B"}

\* What may be typed in a name field, a latitude field, a longitude field.
NameTexts == SiteNames \cup {""}

LatTexts == {"12", "13", "91", "abc"}

LonTexts == {"77", "abc"}

\* The Add New Site forms submitted: every site name with every number for
\* a latitude, and one form for each way of being turned down (a field left
\* empty, a latitude that is no number, a longitude that is no number).
AddForms ==
    {f \in SiteNames \X LatTexts \X LonTexts : f[2] # "abc" /\ f[3] # "abc"}
       \cup {<<"", "12", "77">>, <<"B", "abc", "77">>, <<"B", "12", "abc">>}

\* float(text): ok is FALSE where Python raises ValueError.
Float(text) ==
    CASE text = "12" -> [ok |-> TRUE, value |-> 12]
      [] text = "13" -> [ok |-> TRUE, value |-> 13]
      [] text = "77" -> [ok |-> TRUE, value |-> 77]
      [] text = "91" -> [ok |-> TRUE, value |-> 91]
      [] OTHER       -> [ok |-> FALSE, value |-> 0]

Keys(d) == {d[i].name : i \in 1..Len(d)}

IndexOf(d, name) == CHOOSE i \in 1..Len(d) : d[i].name = name

\* d[name]
Get(d, name) == d[IndexOf(d, name)]

\* d[name] = {"latitude": lat, "longitude": lon}: a new key goes last, an
\* existing key keeps its place and takes the new value.
SetItem(d, name, lat, lon) ==
    LET item == [name |-> name, latitude |-> lat, longitude |-> lon]
    IN  IF name \in Keys(d)
        THEN [d EXCEPT ![IndexOf(d, name)] = item]
        ELSE Append(d, item)

\* d[name]["latitude"] = lat
SetLatitude(d, name, lat) == [d EXCEPT ![IndexOf(d, name)].latitude = lat]

\* d[name]["longitude"] = lon
SetLongitude(d, name, lon) == [d EXCEPT ![IndexOf(d, name)].longitude = lon]

\* save_sites: json.dump of the whole dict over the file.
save_sites(sites_data) ==
    [state |-> "present",
     object |-> [i \in 1..Len(sites_data) |->
                    [key |-> sites_data[i].name,
                     value |-> [latitude |-> sites_data[i].latitude,
                                longitude |-> sites_data[i].longitude]]]]

\* json.load of the file's object.
json_load(file) ==
    [i \in 1..Len(file.object) |->
        [name |-> file.object[i].key,
         latitude |-> file.object[i].value.latitude,
         longitude |-> file.object[i].value.longitude]]

\* load_sites_to_session_state, when 'sites' is not in the session state: an
\* unreadable file raises out of json.load and leaves the session without it.
load_sites(file) ==
    CASE file.state = "absent"     -> [raised |-> FALSE, sites |-> <<>>]
      [] file.state = "present"    -> [raised |-> FALSE, sites |-> json_load(file)]
      [] file.state = "unreadable" -> [raised |-> TRUE, sites |-> <<>>]

\* st.selectbox(..., index=len(site_options)-1): the last option, None when
\* there is none.
DefaultSite(d) == IF Len(d) = 0 THEN NoSite ELSE d[Len(d)].name

(***************************************************************************)
(* st.cache_data(ttl=3600).  A cache maps the call's arguments to the      *)
(* returned value and its age in seconds; an entry is served while its age *)
(* is below the ttl.  Ages are counted up to the ttl.                      *)
(***************************************************************************)
TTL == 3600

\* A variant: the cache of st.cache_data without a ttl, which never expires.
CacheHitForever(cache, key) == key \in DOMAIN cache

CacheHit(cache, key) == key \in DOMAIN cache /\ cache[key].age < TTL

CachePut(cache, key, value) ==
    [k \in (DOMAIN cache) \cup {key} |->
        IF k = key THEN [age |-> 0, value |-> value] ELSE cache[k]]

CacheAged(cache, seconds) ==
    [k \in DOMAIN cache |->
        [cache[k] EXCEPT !.age = IF @ + seconds < TTL THEN @ + seconds ELSE TTL]]

\* The clear() of a cached function.
CacheClear(cache) == <<>>

Elapsed == {TTL - 1, TTL}

(***************************************************************************)
(* The forecast fetch.  What the two APIs answer is the environment's:     *)
(* the weather request fails, or the air-quality request fails, or both    *)
(* answer and the answer is one of a few forecasts.  Coordinates out of    *)
(* range are refused by the weather API.                                   *)
(***************************************************************************)
PayloadHours == {<<0, 0>>, <<0, 1>>, <<1, 0>>, <<1, 1>>}

Forecasts == {"P1", "P2", "P3"}

Payload(p) ==
    CASE p = "P1" -> [weather |-> WeatherJson(PayloadHours, "steady"),
                      aqi     |-> AqiJson(PayloadHours, "steady")]
      [] p = "P2" -> [weather |-> WeatherJson(PayloadHours, "steady"),
                      aqi     |-> AqiJson(PayloadHours \ {<<1, 1>>}, "steady")]
      [] p = "P3" -> [weather |-> WeatherJson(PayloadHours, "rising"),
                      aqi     |-> AqiJson(PayloadHours, "rising")]

InRange(lat, lon) == -90 <= lat /\ lat <= 90 /\ -180 <= lon /\ lon <= 180

Answers(lat, lon) ==
    IF InRange(lat, lon)
    THEN {"weather_fails", "aqi_fails"} \cup Forecasts
    ELSE {"weather_fails"}

\* The body of fetch_forecast_data: the value returned ("None" is
\* (None, None)) and the requests issued.
fetch_forecast_data(latitude, longitude, answer) ==
    CASE answer = "weather_fails" -> [value |-> "None", weather_requests |-> 1, aqi_requests |-> 0]
      [] answer = "aqi_fails"     -> [value |-> "None", weather_requests |-> 1, aqi_requests |-> 1]
      [] OTHER                    -> [value |-> answer, weather_requests |-> 1, aqi_requests |-> 1]

\* The cached call of fetch_forecast_data, the results it can have: the
\* entry's value when the cache serves, and otherwise, for each answer of
\* the APIs, what the body returns, which is cached.
CachedFetch(cache, latitude, longitude) ==
    IF CacheHit(cache, <<latitude, longitude>>)
    THEN {[cache |-> cache, value |-> cache[<<latitude, longitude>>].value,
           weather_requests |-> 0, aqi_requests |-> 0]}
    ELSE {[cache |-> CachePut(cache, <<latitude, longitude>>, r.value),
           value |-> r.value,
           weather_requests |-> r.weather_requests,
           aqi_requests |-> r.aqi_requests] :
             r \in {fetch_forecast_data(latitude, longitude, answer) :
                      answer \in Answers(latitude, longitude)}}

(***************************************************************************)
(* The advisory generation.  The environment's part: no API key in the     *)
(* secrets, the service raising, a response that is not JSON, a response   *)
(* that is JSON of another shape than the schema's (a list of strings), or *)
(* a list of entries as the schema has them.                               *)
(***************************************************************************)
Generations == {"no_key", "service_error", "not_json", "other_shape", "entries"}

\* The body of get_health_recommendations: the value returned and whether
\* generate_content was called.
get_health_recommendations(summary_df_json, generation) ==
    CASE generation = "no_key"        -> [value |-> "None", service_calls |-> 0]
      [] generation = "service_error" -> [value |-> "None", service_calls |-> 1]
      [] generation = "not_json"      -> [value |-> "None", service_calls |-> 1]
      [] generation = "other_shape"   -> [value |-> "Strings", service_calls |-> 1]
      [] generation = "entries"       -> [value |-> "Entries", service_calls |-> 1]

\* A variant: get_health_recommendations without its st.cache_data, the body
\* run at every call.
UncachedAdvice(cache, summary_df_json) ==
    {[cache |-> CachePut(cache, summary_df_json, r.value),
      value |-> r.value,
      service_calls |-> r.service_calls] :
        r \in {get_health_recommendations(summary_df_json, generation) :
                 generation \in Generations}}

\* The cached call of get_health_recommendations, the results it can have.
CachedAdvice(cache, summary_df_json) ==
    IF CacheHit(cache, summary_df_json)
    THEN {[cache |-> cache, value |-> cache[summary_df_json].value, service_calls |-> 0]}
    ELSE {[cache |-> CachePut(cache, summary_df_json, r.value),
           value |-> r.value,
           service_calls |-> r.service_calls] :
             r \in {get_health_recommendations(summary_df_json, generation) :
                      generation \in Generations}}

\* The summary of each forecast, serialized as the page serializes it.
SummaryJson ==
    [p \in Forecasts |->
        to_json(process_data(Payload(p).weather, Payload(p).aqi).summary)]

(***************************************************************************)
(* The page script.  Every interaction runs it from the top; run records   *)
(* the coordinates the last run read, the requests it issued and how far   *)
(* the page was rendered:                                                  *)
(*   JSONDecodeError  json.load raised in load_sites_to_session_state      *)
(*   KeyError         st.session_state.sites[selected_site] raised         *)
(*   fetch_error      the error of a failed fetch, nothing below it        *)
(*   advice           the forecast tables and the recommendations          *)
(*   warning          the forecast tables and the warning                  *)
(*   AttributeError   the forecast tables, then rec.get raised             *)
(***************************************************************************)
Ran(outcome, lat, lon, wr, ar, sc) ==
    [outcome |-> outcome, latitude |-> lat, longitude |-> lon,
     weather_requests |-> wr, aqi_requests |-> ar, service_calls |-> sc]

\* What the page shows for the value of get_health_recommendations.
Shown(recommendations) ==
    CASE recommendations = "None"    -> "warning"
      [] recommendations = "Strings" -> "AttributeError"
      [] recommendations = "Entries" -> "advice"

\* A variant: st.cache_data.clear(), which clears every cached function, in
\* the place of get_health_recommendations.clear().
AllCachesCleared(forecast, advice) ==
    [forecast |-> CacheClear(forecast), advice |-> CacheClear(advice)]

\* The Reload Recommendations button, clicked.
ReloadClicked(forecast, advice) ==
    [forecast |-> forecast, advice |-> CacheClear(advice)]

\* From the fetch to the end of the script.
Forecast(lat, lon, reload) ==
    \E f \in CachedFetch(forecast_cache, lat, lon) :
        IF f.value = "None"
        THEN /\ forecast_cache' = f.cache
             /\ advice_cache' = advice_cache
             /\ run' = Ran("fetch_error", lat, lon, f.weather_requests,
                           f.aqi_requests, 0)
        ELSE LET caches == IF reload
                           THEN ReloadClicked(f.cache, advice_cache)
                           ELSE [forecast |-> f.cache, advice |-> advice_cache]
             IN  \E a \in CachedAdvice(caches.advice, SummaryJson[f.value]) :
                    /\ forecast_cache' = caches.forecast
                    /\ advice_cache' = a.cache
                    /\ run' = Ran(Shown(a.value), lat, lon, f.weather_requests,
                                  f.aqi_requests, a.service_calls)

\* The script from the selectbox on, for the registry d and the selection;
\* the coordinates are those the run read at the top.
Script(d, selection, reload) ==
    IF selection \notin Keys(d)
    THEN /\ run' = Ran("KeyError", 0, 0, 0, 0, 0)
         /\ UNCHANGED <<forecast_cache, advice_cache>>
    ELSE Forecast(Get(d, selection).latitude, Get(d, selection).longitude, reload)

\* An interaction is counted, up to the bound.
Counted == steps < MaxSteps /\ steps' = steps + 1

\* The widgets of the last run that are on the page.
PastSelection == session /\ run.outcome \notin {"none", "JSONDecodeError", "KeyError"}

TablesShown == session /\ run.outcome \in {"advice", "warning", "AttributeError"}

\* The page is opened: a new session, which loads the registry.
NewSession ==
    LET loaded == load_sites(sites_file)
    IN  /\ Counted
        /\ edit_mode' = FALSE
        /\ sites' = loaded.sites
        /\ selected_site' = DefaultSite(loaded.sites)
        /\ IF loaded.raised
           THEN /\ session' = FALSE
                /\ run' = Ran("JSONDecodeError", 0, 0, 0, 0, 0)
                /\ UNCHANGED <<forecast_cache, advice_cache>>
           ELSE /\ session' = TRUE
                /\ Script(loaded.sites, DefaultSite(loaded.sites), FALSE)
        /\ UNCHANGED <<sites_file, pipeVars>>

\* Another site is chosen in the selectbox.
SelectSite(name) ==
    /\ Counted
    /\ session
    /\ name \in Keys(sites)
    /\ name # selected_site
    /\ selected_site' = name
    /\ Script(sites, name, FALSE)
    /\ UNCHANGED <<sites_file, session, sites, edit_mode, pipeVars>>

\* Edit Coordinates: edit mode, and st.rerun().
EditCoordinates ==
    /\ Counted
    /\ PastSelection
    /\ ~edit_mode
    /\ edit_mode' = TRUE
    /\ Script(sites, selected_site, FALSE)
    /\ UNCHANGED <<sites_file, session, sites, selected_site, pipeVars>>

\* Save Changes with the two text inputs' values.  The two assignments run
\* in turn; a ValueError of either float() ends the handler with the error
\* message and the run goes on with the coordinates it read at the top;
\* without one the dict is saved and st.rerun() starts the script again.
SaveChanges(lat_display, lon_display) ==
    LET lat == Float(lat_display)
        lon == Float(lon_display)
        one == SetLatitude(sites, selected_site, lat.value)
        two == SetLongitude(one, selected_site, lon.value)
    IN  /\ Counted
        /\ PastSelection
        /\ edit_mode
        /\ IF ~lat.ok
           THEN /\ UNCHANGED <<sites, sites_file, edit_mode>>
                /\ Script(sites, selected_site, FALSE)
           ELSE IF ~lon.ok
           THEN /\ sites' = one
                /\ UNCHANGED <<sites_file, edit_mode>>
                /\ Script(sites, selected_site, FALSE)
           ELSE /\ sites' = two
                /\ sites_file' = save_sites(two)
                /\ edit_mode' = FALSE
                /\ Script(two, selected_site, FALSE)
        /\ UNCHANGED <<session, selected_site, pipeVars>>

\* A variant: the Add Site handler with a save_sites after the assignment.
AddAndSave(d, file, name, lat, lon) ==
    [sites |-> SetItem(d, name, lat, lon), file |-> save_sites(SetItem(d, name, lat, lon))]

\* What the Add Site handler leaves in the session state and in the file.
AddToSession(d, file, name, lat, lon) ==
    [sites |-> SetItem(d, name, lat, lon), file |-> file]

\* The Add New Site form, submitted.  Nothing is done unless the three
\* fields are filled; a ValueError of either float() ends the handler with
\* the error message; without one the site is set in the session state and
\* st.rerun() starts the script again, the selectbox on its old value or,
\* its options having changed, on its default.
AddSite(new_site_name, new_lat, new_lon) ==
    LET lat == Float(new_lat)
        lon == Float(new_lon)
        added == AddToSession(sites, sites_file, new_site_name, lat.value, lon.value)
    IN  /\ Counted
        /\ PastSelection
        /\ IF new_site_name = "" \/ new_lat = "" \/ new_lon = "" \/ ~lat.ok \/ ~lon.ok
           THEN /\ UNCHANGED <<sites, sites_file, selected_site>>
                /\ Script(sites, selected_site, FALSE)
           ELSE /\ sites' = added.sites
                /\ sites_file' = added.file
                /\ \E selection \in {selected_site} \cup
                                    (IF new_site_name \in Keys(sites) THEN {}
                                     ELSE {DefaultSite(added.sites)}) :
                      /\ selected_site' = selection
                      /\ Script(added.sites, selection, FALSE)
        /\ UNCHANGED <<session, edit_mode, pipeVars>>

\* The other view is chosen in the radio: a rerun.
SwitchView ==
    /\ Counted
    /\ TablesShown
    /\ Script(sites, selected_site, FALSE)
    /\ UNCHANGED <<sites_file, session, sites, edit_mode, selected_site, pipeVars>>

\* Reload Recommendations is clicked: a rerun in which the button, when the
\* run gets to it, clears the cache of get_health_recommendations.
ReloadRecommendations ==
    /\ Counted
    /\ TablesShown
    /\ Script(sites, selected_site, TRUE)
    /\ UNCHANGED <<sites_file, session, sites, edit_mode, selected_site, pipeVars>>

\* Time passes between two runs.
Wait(seconds) ==
    /\ Counted
    /\ forecast_cache' = CacheAged(forecast_cache, seconds)
    /\ advice_cache' = CacheAged(advice_cache, seconds)
    /\ UNCHANGED <<sites_file, session, sites, edit_mode, selected_site, run, pipeVars>>

\* The registry files the process may start with.
SiteA == [key |-> "A", value |-> [latitude |-> 12, longitude |-> 77]]

SiteB == [key |-> "B", value |-> [latitude |-> 13, longitude |-> 77]]

StartFiles ==
    {[state |-> "absent", object |-> <<>>],
     [state |-> "unreadable", object |-> <<>>],
     [state |-> "present", object |-> <<>>],
     [state |-> "present", object |-> <<SiteA>>],
     [state |-> "present", object |-> <<SiteA, SiteB>>]}

Init ==
    /\ sites_file \in StartFiles
    /\ session = FALSE
    /\ sites = <<>>
    /\ edit_mode = FALSE
    /\ selected_site = NoSite
    /\ forecast_cache = <<>>
    /\ advice_cache = <<>>
    /\ run = Ran("none", 0, 0, 0, 0, 0)
    /\ steps = 0
    /\ weather_data = NoData
    /\ aqi_data = NoData
    /\ hourly_df = <<>>
    /\ summary_df = <<>>
    /\ pc = "idle"

Next ==
    \/ NewSession
    \/ \E name \in SiteNames : SelectSite(name)
    \/ EditCoordinates
    \/ \E lat_display \in LatTexts, lon_display \in LonTexts :
          SaveChanges(lat_display, lon_display)
    \/ \E form \in AddForms : AddSite(form[1], form[2], form[3])
    \/ SwitchView
    \/ ReloadRecommendations
    \/ \E seconds \in Elapsed : Wait(seconds)

Spec == Init /\ [][Next]_vars

(***************************************************************************)
(* process_data on its own: the inputs are drawn, and the call is made.    *)
(***************************************************************************)
PipelineInit ==
    /\ \/ weather_data = NoData
       \/ \E present \in SUBSET Times, p \in WeatherProfiles :
             weather_data = WeatherJson(present, p)
    /\ \/ aqi_data = NoData
       \/ \E present \in SUBSET Times, p \in AqiProfiles :
             aqi_data = AqiJson(present, p)
    /\ hourly_df = <<>>
    /\ summary_df = <<>>
    /\ pc = "call"
    /\ sites_file = [state |-> "absent", object |-> <<>>]
    /\ session = FALSE
    /\ sites = <<>>
    /\ edit_mode = FALSE
    /\ selected_site = NoSite
    /\ forecast_cache = <<>>
    /\ advice_cache = <<>>
    /\ run = Ran("none", 0, 0, 0, 0, 0)
    /\ steps = 0

Process ==
    /\ pc = "call"
    /\ LET frames == process_data(weather_data, aqi_data)
       IN  /\ hourly_df' = frames.hourly
           /\ summary_df' = frames.summary
    /\ pc' = "returned"
    /\ UNCHANGED <<weather_data, aqi_data, appVars>>

PipelineNext == Process

SpecPipeline == PipelineInit /\ [][PipelineNext]_vars

(***************************************************************************)
(* The properties.                                                         *)
(***************************************************************************)
\* A page run: any interaction but the passing of time.
PageRun ==
    \/ NewSession
    \/ \E name \in SiteNames : SelectSite(name)
    \/ EditCoordinates
    \/ \E lat_display \in LatTexts, lon_display \in LonTexts :
          SaveChanges(lat_display, lon_display)
    \/ \E form \in AddForms : AddSite(form[1], form[2], form[3])
    \/ SwitchView
    \/ ReloadRecommendations

\* A page run in which Reload Recommendations was not clicked.
RunWithoutReload ==
    \/ NewSession
    \/ \E name \in SiteNames : SelectSite(name)
    \/ EditCoordinates
    \/ \E lat_display \in LatTexts, lon_display \in LonTexts :
          SaveChanges(lat_display, lon_display)
    \/ \E form \in AddForms : AddSite(form[1], form[2], form[3])
    \/ SwitchView

\* The run called fetch_forecast_data; the run rendered the forecast tables.
FetchCalled(r) == r.outcome \in {"fetch_error", "advice", "warning", "AttributeError"}

TablesRendered(r) == r.outcome \in {"advice", "warning", "AttributeError"}

RunKey(r) == <<r.latitude, r.longitude>>

Served(cache, key) == key \in DOMAIN cache /\ cache[key].age < TTL

\* C1, as claimed: a call of fetch_forecast_data for coordinates whose entry
\* is less than an hour old issues no request and returns the cached pair,
\* and any other call (the first, or one after the hour) issues exactly one
\* pair of requests, one weather and one air-quality: two calls less than
\* an hour apart issue exactly one pair.
C1_OnePairOfRequests ==
    [][(PageRun /\ FetchCalled(run')) =>
          IF Served(forecast_cache, RunKey(run'))
          THEN /\ run'.weather_requests = 0
               /\ run'.aqi_requests = 0
               /\ forecast_cache' = forecast_cache
          ELSE /\ run'.weather_requests = 1
               /\ run'.aqi_requests = 1
               /\ Served(forecast_cache', RunKey(run'))
               /\ forecast_cache'[RunKey(run')].age = 0]_vars

\* C1, amended: a call for coordinates whose entry is less than an hour old
\* issues no request and returns the cached result, a cached failure
\* included; any other call issues exactly one weather request and at most
\* one air-quality request, exactly one when it returns data, and its
\* result is cached anew.
C1_OneFetchPerHour ==
    [][(PageRun /\ FetchCalled(run')) =>
          IF Served(forecast_cache, RunKey(run'))
          THEN /\ run'.weather_requests = 0
               /\ run'.aqi_requests = 0
               /\ forecast_cache' = forecast_cache
               /\ (run'.outcome = "fetch_error") =
                     (forecast_cache[RunKey(run')].value = "None")
          ELSE /\ run'.weather_requests = 1
               /\ run'.aqi_requests \in {0, 1}
               /\ TablesRendered(run') => run'.aqi_requests = 1
               /\ Served(forecast_cache', RunKey(run'))
               /\ forecast_cache'[RunKey(run')].age = 0
               /\ (run'.outcome = "fetch_error") =
                     (forecast_cache'[RunKey(run')].value = "None")]_vars

\* C1's case: a run was served the forecast from an entry one second short
\* of the hour, without a request.
C1_Witness ==
    /\ TablesRendered(run)
    /\ run.weather_requests = 0
    /\ run.aqi_requests = 0
    /\ Served(forecast_cache, RunKey(run))
    /\ forecast_cache[RunKey(run)].age = TTL - 1

\* The serialized summary the run gave to get_health_recommendations.
RunSummaryJson(r, cache) == SummaryJson[cache[RunKey(r)].value]

\* C2: a call of get_health_recommendations with a serialized summary whose
\* entry is less than an hour old, in a run without a reload, does not
\* invoke the service and returns the cached result, whatever site the
\* summary is of.
C2_SameSummaryOneGeneration ==
    [][(RunWithoutReload /\ TablesRendered(run')
          /\ Served(advice_cache, RunSummaryJson(run', forecast_cache'))) =>
            /\ run'.service_calls = 0
            /\ advice_cache' = advice_cache
            /\ run'.outcome =
                  Shown(advice_cache[RunSummaryJson(run', forecast_cache')].value)]_vars

\* C2's case: the run fetched another forecast than the one cached for the
\* other site, with other hourly data and the same daily summary, and was
\* served the recommendations without a call of the service.
C2_Witness ==
    /\ run.outcome = "advice"
    /\ run.weather_requests = 1
    /\ run.service_calls = 0
    /\ \E k \in DOMAIN forecast_cache :
          /\ k # RunKey(run)
          /\ forecast_cache[k].value \in Forecasts
          /\ forecast_cache[k].value # forecast_cache[RunKey(run)].value
          /\ SummaryJson[forecast_cache[k].value] = RunSummaryJson(run, forecast_cache)

\* The coordinates typed are numbers in the ranges of a latitude and a
\* longitude.
ValidCoordinates(lat_text, lon_text) ==
    /\ Float(lat_text).ok
    /\ Float(lon_text).ok
    /\ InRange(Float(lat_text).value, Float(lon_text).value)

\* C3: Save Changes with a latitude or a longitude that is not a number or
\* is out of range leaves the registry in the session and the file as they
\* were.
C3_InvalidUpdateRejected ==
    [][\A lat_display \in LatTexts, lon_display \in LonTexts :
          (SaveChanges(lat_display, lon_display)
             /\ ~ValidCoordinates(lat_display, lon_display)) =>
                (sites' = sites /\ sites_file' = sites_file)]_vars

\* C4: Add Site never changes the file, and the site it adds is in the
\* session's registry with the coordinates given; a Save Changes that is
\* accepted leaves the file holding the whole registry of the session.
\* (Each implication is written consequent first, B \/ ~A for A => B.)
C4_AddInSessionUpdateInFile ==
    [][/\ \A form \in AddForms :
             \/ /\ sites_file' = sites_file
                /\ (form[1] # "" /\ Float(form[2]).ok /\ Float(form[3]).ok) =>
                      /\ form[1] \in Keys(sites')
                      /\ Get(sites', form[1]).latitude = Float(form[2]).value
                      /\ Get(sites', form[1]).longitude = Float(form[3]).value
             \/ ~AddSite(form[1], form[2], form[3])
       /\ \A lat_display \in LatTexts, lon_display \in LonTexts :
             (Float(lat_display).ok /\ Float(lon_display).ok) =>
                \/ /\ sites_file'.state = "present"
                   /\ json_load(sites_file') = sites'
                   /\ selected_site \in Keys(sites')
                   /\ Get(sites', selected_site).latitude = Float(lat_display).value
                   /\ Get(sites', selected_site).longitude = Float(lon_display).value
                \/ ~SaveChanges(lat_display, lon_display)]_vars

\* C4's case: a site added in the session is in the registry and not in the
\* file, which an update has written since the process started.
C4_Witness ==
    /\ session
    /\ sites_file \notin StartFiles
    /\ Keys(sites) \ Keys(json_load(sites_file)) # {}

\* C5: Add Site with the name of a site of the registry leaves the registry
\* as it was.
C5_DuplicateNameRejected ==
    [][\A form \in AddForms :
          (AddSite(form[1], form[2], form[3]) /\ form[1] \in Keys(sites)) =>
             sites' = sites]_vars

\* A cell is a number and at most another.
AtMost(a, b) == a # NaN /\ b # NaN /\ NumberOf(a) <= NumberOf(b)

\* C6: the summary process_data returns has exactly one row for each date
\* that has a row in the hourly table and no row for any other date, and in
\* every row each minimum is at most its maximum and the rain sum is not
\* negative.
C6_OneRowPerPresentDate ==
    pc = "returned" =>
        /\ \A d \in 0..MaxDay :
              Cardinality({i \in 1..Len(summary_df) : summary_df[i].Date = DateStr(d)})
                 = IF \E t \in DOMAIN hourly_df : DayOf(t) = d THEN 1 ELSE 0
        /\ \A i \in 1..Len(summary_df) :
              /\ AtMost(summary_df[i].Temp_min, summary_df[i].Temp_max)
              /\ AtMost(summary_df[i].Humidity_min, summary_df[i].Humidity_max)
              /\ AtMost(summary_df[i].AQI_min, summary_df[i].AQI_max)
              /\ AtMost(Num(0), summary_df[i].Rain_sum)

\* C7: a run that rendered the forecast tables and whose recommendations
\* are not a list of entries ends with the warning.
C7_FailedAdviceWarns ==
    (TablesRendered(run) /\ RunSummaryJson(run, forecast_cache) \in DOMAIN advice_cache
        /\ advice_cache[RunSummaryJson(run, forecast_cache)].value # "Entries") =>
            run.outcome = "warning"

\* C8: a run in which Reload Recommendations is clicked leaves the registry
\* and the file as they were and every forecast entry as it was (but the
\* entry of its own coordinates when that is an hour old, which the fetch
\* renews as in any run), issues no request when the entry of its
\* coordinates is less than an hour old, and, the button reached, leaves in
\* the advice cache nothing but the recommendations it generated for its
\* summary, the service invoked unless the API key is missing.
C8_ReloadClearsAdviceOnly ==
    [][ReloadRecommendations =>
          /\ sites' = sites
          /\ sites_file' = sites_file
          /\ \A k \in DOMAIN forecast_cache :
                (forecast_cache[k].age < TTL \/ k # RunKey(run')) =>
                   (k \in DOMAIN forecast_cache' /\ forecast_cache'[k] = forecast_cache[k])
          /\ Served(forecast_cache, RunKey(run')) =>
                (run'.weather_requests = 0 /\ run'.aqi_requests = 0)
          /\ TablesRendered(run') =>
                /\ RunKey(run') \in DOMAIN forecast_cache'
                /\ DOMAIN advice_cache' = {RunSummaryJson(run', forecast_cache')}
                /\ advice_cache'[RunSummaryJson(run', forecast_cache')].age = 0
                /\ run'.service_calls = 1 \/ run'.outcome = "warning"]_vars

\* C8's case: the second interaction was the reload, which was served the
\* forecast without a request and had the service generate the
\* recommendations again.
C8_Witness ==
    /\ steps = 2
    /\ TablesRendered(run)
    /\ run.weather_requests = 0
    /\ run.service_calls = 1
    /\ forecast_cache # <<>>

\* C9: the session that opens on an absent file has the empty registry,
\* and no page run raises at the lookup of the selected site, whatever the
\* registry holds, the empty one included.
C9_AnyRegistryRenders ==
    /\ (session /\ steps = 1 /\ sites_file.state = "absent") => sites = <<>>
    /\ run.outcome # "KeyError"

\* C10: the page run that follows a failed fetch and reads the same
\* coordinates issues the weather request again.
C10_FailedFetchRetried ==
    [][(PageRun /\ run.outcome = "fetch_error" /\ FetchCalled(run')
          /\ RunKey(run') = RunKey(run)) =>
             run'.weather_requests = 1]_vars

====
